---- MODULE Spec2Model ----
(***************************************************************************)
(* Model of src/command_helpers.rs: the StderrForwarder that turns the     *)
(* child's stderr pipe into "cargo:warning=" lines, and the lifecycle of   *)
(* one invocation (run = spawn, forward_all, wait, classify).              *)
(*                                                                         *)
(* Text is modelled as a sequence of string fragments: a byte of the pipe  *)
(* is a one-character fragment, a formatted message is the sequence of its *)
(* literal pieces and rendered arguments.                                  *)
(***************************************************************************)
EXTENDS Integers, Sequences, FiniteSets, TLC

\* ---------------------------------------------------------------- bounds
MaxStream == 4
MaxWouldBlock == 2
MaxInterrupted == 1
MaxCalls == 3
NumThreads == 2
NumInstances == 2
MaxOps == 1

\* ------------------------------------------------------ program constants
MIN_BUFFER_CAPACITY == 100

NL == "\n"
Byte == {NL, "a", "b"}

Program == "kotlinc-jvm"
ArgLists == { <<"-d", "out">>, <<"-Werror", "-d", "out">> }

CfgWindows == FALSE

SpawnErrors == {"NotFound", "PermissionDenied"}
ReadErrors == {"BrokenPipe"}
WaitErrors == {"InvalidInput"}
ExitStatuses == { [kind |-> "exited", n |-> 0], [kind |-> "exited", n |-> 1],
                  [kind |-> "signal", n |-> 9] }

VARIABLES
    pc,              \* position of the caller: run, or a polling caller
    cmd,             \* the Command: program, args, stderr/stdout destination
    cargo_output,    \* CargoOutput: metadata, warnings, debug
    checked_dbg_var, \* CargoOutput.checked_dbg_var
    child,           \* the Child returned by spawn: its stderr handle
    stream,          \* all the bytes the child writes to the stderr pipe
    pos,             \* how many of them have been read
    inner,           \* StderrForwarder.inner: Option<(ChildStderr, Vec<u8>)>
    stdout,          \* lines written to the process's stdout
    ret,             \* value returned by the last forward_available call
    result,          \* value returned by run
    spawnRet,        \* value returned by spawn
    waitRes,         \* value returned by child.wait()
    hist,            \* history: counters of calls, reads and read outcomes
    thr,             \* threads that print: position, CargoOutput clone held
    stdout_lock,     \* owner of the lock of io::stdout(), 0 when free
    sink,            \* the writes that reached stdout, each with its writer
    dbg_flags        \* checked_dbg_var of each CargoOutput::new() instance

runVars == << pc, cmd, cargo_output, checked_dbg_var, child, stream, pos, inner,
              stdout, ret, result, spawnRet, waitRes, hist >>

threadVars == << thr, stdout_lock, sink, dbg_flags >>

vars == << pc, cmd, cargo_output, checked_dbg_var, child, stream, pos, inner,
           stdout, ret, result, spawnRet, waitRes, hist,
           thr, stdout_lock, sink, dbg_flags >>

\* --------------------------------------------------------------- helpers
Min(a, b) == IF a < b THEN a ELSE b
Max(a, b) == IF a < b THEN b ELSE a

Range(s) == { s[i] : i \in 1..Len(s) }

RECURSIVE SeqsUpTo(_)
SeqsUpTo(n) ==
    IF n = 0 THEN { <<>> }
    ELSE LET shorter == SeqsUpTo(n - 1)
         IN shorter \cup { Append(s, b) : s \in { t \in shorter : Len(t) = n - 1 }, b \in Byte }

\* ------------------------------------------------------------ error type
NoError == [tag |-> "none", kind |-> "none", message |-> <<>>]
OkResult == [tag |-> "Ok", kind |-> "none", message |-> <<>>]

\* Error::new
ErrorNew(kind, message) == [tag |-> "Err", kind |-> kind, message |-> message]

\* <Command as Debug>::fmt: the program and every argument, each quoted
RECURSIVE DebugArgs(_)
DebugArgs(args) ==
    IF args = <<>> THEN <<>>
    ELSE <<" ", "\"", Head(args), "\"">> \o DebugArgs(Tail(args))

DebugCommand(c) == <<"\"", c.program, "\"">> \o DebugArgs(c.args)

\* <ExitStatus as Display>::fmt and ExitStatus::success
DisplayStatus(s) ==
    IF s.kind = "exited" THEN <<"exit status: ", ToString(s.n)>>
    ELSE <<"signal: ", ToString(s.n)>>

StatusSuccess(s) == s.kind = "exited" /\ s.n = 0

\* ---------------------------------------------------------- CargoOutput
\* CargoOutput::print_debug: returns the new checked_dbg_var and stdout
PrintDebug(co, checked, out, arg) ==
    LET announce == co.metadata /\ ~checked
        out1 == IF announce
                THEN Append(out, [kind |-> "println",
                                  text |-> <<"cargo:rerun-if-env-changed=CC_ENABLE_DEBUG_OUTPUT">>])
                ELSE out
        out2 == IF co.debug THEN Append(out1, [kind |-> "println", text |-> arg])
                ELSE out1
    IN [checked |-> (checked \/ announce), out |-> out2]

StdioForWarnings(co) == IF co.warnings THEN "piped" ELSE "null"

StdioForOutput(co) == "inherit"

\* ------------------------------------------------------- write_warning
WriteWarning(out, line) == Append(out, [kind |-> "warning", text |-> line])

\* ------------------------------------------------------- StderrForwarder
NoInner == [some |-> FALSE, buffer |-> <<>>, cap |-> 0]

\* StderrForwarder::new: takes the child's stderr handle, if there is one
ForwarderNew(ch) ==
    IF ch.stderr = "pipe"
    THEN [some |-> TRUE, buffer |-> <<>>, cap |-> MIN_BUFFER_CAPACITY]
    ELSE NoInner

ReserveNothing(cap, len, additional) == cap

\* Vec::reserve(additional): the capacity after the call
Reserve(cap, len, additional) ==
    IF cap - len >= additional THEN cap ELSE Max(2 * cap, len + additional)

\* slice::split_inclusive(|b| b == b'\n')
FirstNewline(b) ==
    IF \E i \in 1..Len(b) : b[i] = NL
    THEN CHOOSE i \in 1..Len(b) : b[i] = NL /\ \A j \in 1..(i - 1) : b[j] # NL
    ELSE 0

RECURSIVE SplitInclusive(_)
SplitInclusive(b) ==
    IF b = <<>> THEN <<>>
    ELSE LET i == FirstNewline(b)
         IN IF i = 0 THEN << b >>
            ELSE << SubSeq(b, 1, i) >> \o SplitInclusive(SubSeq(b, i + 1, Len(b)))

ForwardLineNotConsumed(acc, slice) ==
    IF slice # <<>> /\ slice[Len(slice)] = NL
    THEN LET line == SubSeq(slice, 1, Len(slice) - 1)
         IN [consumed |-> acc.consumed,
             out |-> WriteWarning(acc.out, line)]
    ELSE acc

\* the body of the for loop: a slice ending in a newline is forwarded
\* without it and counted as consumed, any other slice is left alone
ForwardLine(acc, slice) ==
    IF slice # <<>> /\ slice[Len(slice)] = NL
    THEN LET line == SubSeq(slice, 1, Len(slice) - 1)
         IN [consumed |-> acc.consumed + Len(line) + 1,
             out |-> WriteWarning(acc.out, line)]
    ELSE acc

RECURSIVE ForwardLines(_, _)
ForwardLines(acc, slices) ==
    IF slices = <<>> THEN acc
    ELSE ForwardLines(ForwardLine(acc, Head(slices)), Tail(slices))

DrainKeepsNewline(b, consumed) ==
    IF consumed = 0 THEN b ELSE SubSeq(b, consumed, Len(b))

\* Vec::drain(..consumed)
Drain(b, consumed) == SubSeq(b, consumed + 1, Len(b))

OnBytesReadFlushesPartial(buffer, data, out) ==
    LET buf == buffer \o data
        acc == ForwardLines([consumed |-> 0, out |-> out], SplitInclusive(buf))
        rest == Drain(buf, acc.consumed)
    IN [buffer |-> <<>>,
        out |-> IF rest = <<>> THEN acc.out ELSE WriteWarning(acc.out, rest)]

OnBytesReadDropPartial(buffer, data, out) ==
    LET buf == buffer \o data
        acc == ForwardLines([consumed |-> 0, out |-> out], SplitInclusive(buf))
    IN [buffer |-> <<>>, out |-> acc.out]

\* The arm Ok(bytes_read) if bytes_read != 0
OnBytesRead(buffer, data, out) ==
    LET buf == buffer \o data
        acc == ForwardLines([consumed |-> 0, out |-> out], SplitInclusive(buf))
    IN [buffer |-> Drain(buf, acc.consumed), out |-> acc.out]

FlushAtEndNoticeFirst(buffer, out, err) ==
    LET old_data_end == Len(buffer)
        out1 == IF err # "none"
                THEN WriteWarning(out, <<"Failed to read from child stderr: ", err>>)
                ELSE out
    IN IF old_data_end > 0
       THEN WriteWarning(out1, SubSeq(buffer, 1, old_data_end))
       ELSE out1

\* The arm res => ...: flush what is buffered, report a read error
FlushAtEnd(buffer, out, err) ==
    LET old_data_end == Len(buffer)
        out1 == IF old_data_end > 0
                THEN WriteWarning(out, SubSeq(buffer, 1, old_data_end))
                ELSE out
    IN IF err # "none"
       THEN WriteWarning(out1, <<"Failed to read from child stderr: ", err>>)
       ELSE out1

\* buffer.spare_capacity_mut() after buffer.reserve(MIN_BUFFER_CAPACITY)
SpareCapacity(fw) ==
    Reserve(fw.cap, Len(fw.buffer), MIN_BUFFER_CAPACITY) - Len(fw.buffer)

\* ------------------------------------------------------------ spawn
NoChild == [spawned |-> FALSE, stderr |-> "none"]

ResetStderrKept(c) == c

\* Drop for ResetStderr
ResetStderrDrop(c) == [c EXCEPT !.stderr = "inherit"]

SpawnResultAlwaysExec(c, program, outcome) ==
    IF outcome = "ok" THEN OkResult
    ELSE ErrorNew("ToolExecError",
                  <<"Command ">> \o DebugCommand(c) \o <<" with args ", program,
                    " failed to start: ", outcome>>)

\* the classification of the result of Command::spawn
SpawnResult(c, program, outcome) ==
    IF outcome = "ok" THEN OkResult
    ELSE IF outcome = "NotFound"
    THEN ErrorNew("ToolNotFound",
                  <<"Failed to find tool. Is ", program, " installed?",
                    IF CfgWindows
                    THEN " (see https://docs.rs/cc/latest/cc/#compile-time-requirements for help)"
                    ELSE "">>)
    ELSE ErrorNew("ToolExecError",
                  <<"Command ">> \o DebugCommand(c) \o <<" with args ", program,
                    " failed to start: ", outcome>>)

\* spawn: the command it leaves behind, the child, the result, the output
Spawn(c, program, co, checked, out, outcome) ==
    LET dbg == PrintDebug(co, checked, out, <<"running: ">> \o DebugCommand(c))
        configured == [c EXCEPT !.stderr = StdioForWarnings(co),
                                !.stdout = StdioForOutput(co)]
        ch == IF outcome = "ok"
              THEN [spawned |-> TRUE,
                    stderr |-> IF configured.stderr = "piped" THEN "pipe" ELSE "none"]
              ELSE NoChild
    IN [cmd |-> ResetStderrDrop(configured),
        configured |-> configured.stderr,
        child |-> ch,
        result |-> SpawnResult(configured, program, outcome),
        checked |-> dbg.checked,
        out |-> dbg.out]

\* ------------------------------------------------------- wait_on_child
WaitFailedIgnored(c, program, e) == OkResult

WaitFailedNoCommand(c, program, e) ==
    ErrorNew("ToolExecError",
             <<"Failed to wait on spawned child process, command ">>
             \o <<" with args ", program, ": ", e, ".">>)

\* wait_on_child, lines 207-217: the error for a failed wait
WaitFailed(c, program, e) ==
    ErrorNew("ToolExecError",
             <<"Failed to wait on spawned child process, command ">> \o DebugCommand(c)
             \o <<" with args ", program, ": ", e, ".">>)

ClassifyNoStatus(c, program, status) ==
    IF StatusSuccess(status) THEN OkResult
    ELSE ErrorNew("ToolExecError",
                  <<"Command ">> \o DebugCommand(c) \o <<" with args ", program,
                    " did not execute successfully.">>)

\* wait_on_child, lines 222-234: the classification of the exit status
Classify(c, program, status) ==
    IF StatusSuccess(status) THEN OkResult
    ELSE ErrorNew("ToolExecError",
                  <<"Command ">> \o DebugCommand(c) \o <<" with args ", program,
                    " did not execute successfully (status code ">>
                  \o DisplayStatus(status) \o <<").">>)

NoWait == [tag |-> "none", err |-> "none", status |-> [kind |-> "none", n |-> 0]]
WaitOutcomes ==
    { [tag |-> "Ok", err |-> "none", status |-> s] : s \in ExitStatuses }
    \cup { [tag |-> "Err", err |-> e, status |-> [kind |-> "none", n |-> 0]] : e \in WaitErrors }

\* ------------------------------------------------------------ history
NoHist == [calls |-> 0, reads |-> 0, wouldBlocks |-> 0, interrupts |-> 0,
           readErr |-> FALSE, doneReported |-> FALSE, waits |-> 0, spawns |-> 0,
           spawnOutcome |-> "none", spawnStderr |-> "none", hadStream |-> FALSE,
           spare |-> 0]

\* a thread that holds a clone of CargoOutput instance i and has not printed
IdleThread(i) ==
    [pc |-> "idle", inst |-> i, ops |-> 0, loaded |-> FALSE, text |-> "",
     after |-> "idle"]

Threads == 1..NumThreads
Instances == 1..NumInstances

\* no other thread prints
ThreadsIdle ==
    /\ thr = [t \in Threads |-> IdleThread(1)]
    /\ stdout_lock = 0
    /\ sink = <<>>
    /\ dbg_flags = [i \in Instances |-> FALSE]

\* ---------------------------------------------------------------- Init
Init ==
    /\ pc = "unspawned"
    /\ cargo_output \in [metadata : {TRUE}, warnings : BOOLEAN, debug : BOOLEAN]
    /\ cmd \in [program : {Program}, args : ArgLists, stderr : {"inherit"}, stdout : {"inherit"}]
    /\ checked_dbg_var = FALSE
    /\ child = NoChild
    /\ stream \in IF cargo_output.warnings THEN SeqsUpTo(MaxStream) ELSE { <<>> }
    /\ pos = 0
    /\ inner = NoInner
    /\ stdout = <<>>
    /\ ret = FALSE
    /\ result = NoError
    /\ spawnRet = NoError
    /\ waitRes = NoWait
    /\ hist = NoHist
    /\ ThreadsIdle

\* -------------------------------------------------------------- actions
RunSpawnRetries ==
    /\ pc = "unspawned"
    /\ \E outcome \in {"ok"} \cup SpawnErrors :
        LET s == Spawn(cmd, Program, cargo_output, checked_dbg_var, stdout, outcome)
        IN /\ cmd' = s.cmd
           /\ child' = s.child
           /\ checked_dbg_var' = s.checked
           /\ stdout' = s.out
           /\ spawnRet' = s.result
           /\ hist' = [hist EXCEPT !.spawns = @ + 1, !.spawnOutcome = outcome,
                                   !.spawnStderr = s.configured]
           /\ IF s.result.tag = "Ok"
              THEN pc' = "spawned" /\ result' = result
              ELSE IF hist.spawns = 0
              THEN pc' = "unspawned" /\ result' = result
              ELSE pc' = "returned" /\ result' = s.result
    /\ UNCHANGED << cargo_output, stream, pos, inner, ret, waitRes >>
    /\ UNCHANGED threadVars

\* run, line 244: spawn(cmd, program, cargo_output)?
RunSpawn ==
    /\ pc = "unspawned"
    /\ \E outcome \in {"ok"} \cup SpawnErrors :
        LET s == Spawn(cmd, Program, cargo_output, checked_dbg_var, stdout, outcome)
        IN /\ cmd' = s.cmd
           /\ child' = s.child
           /\ checked_dbg_var' = s.checked
           /\ stdout' = s.out
           /\ spawnRet' = s.result
           /\ hist' = [hist EXCEPT !.spawns = @ + 1, !.spawnOutcome = outcome,
                                   !.spawnStderr = s.configured]
           /\ IF s.result.tag = "Ok"
              THEN pc' = "spawned" /\ result' = result
              ELSE pc' = "returned" /\ result' = s.result
    /\ UNCHANGED << cargo_output, stream, pos, inner, ret, waitRes >>
    /\ UNCHANGED threadVars

\* wait_on_child, line 203: StderrForwarder::new(child)
StderrForwarderNew ==
    /\ pc = "spawned"
    /\ inner' = ForwarderNew(child)
    /\ child' = [child EXCEPT !.stderr = "none"]
    /\ pc' = "fa_enter"
    /\ hist' = [hist EXCEPT !.hadStream = (child.stderr = "pipe")]
    /\ UNCHANGED << cmd, cargo_output, checked_dbg_var, stream, pos, stdout, ret,
                    result, spawnRet, waitRes >>
    /\ UNCHANGED threadVars

\* forward_available, lines 128-129 and 178-180: entry
ForwardAvailableEnter ==
    /\ pc = "fa_enter"
    /\ IF inner.some
       THEN /\ pc' = "fa_loop"
            /\ ret' = ret
            /\ hist' = [hist EXCEPT !.calls = @ + 1]
       ELSE /\ pc' = "fa_ret"
            /\ ret' = TRUE
            /\ hist' = [hist EXCEPT !.calls = @ + 1, !.doneReported = TRUE]
    /\ UNCHANGED << cmd, cargo_output, checked_dbg_var, child, stream, pos, inner,
                    stdout, result, spawnRet, waitRes >>
    /\ UNCHANGED threadVars

ReadDataNoProgress ==
    /\ pc = "fa_loop"
    /\ inner.some
    /\ LET old_data_end == Len(inner.buffer)
           cap == Reserve(inner.cap, old_data_end, MIN_BUFFER_CAPACITY)
       IN \E n \in 1..Min(Len(stream) - pos, cap - old_data_end) :
            LET r == OnBytesRead(inner.buffer, SubSeq(stream, pos + 1, pos + n), stdout)
            IN /\ inner' = [some |-> TRUE, buffer |-> r.buffer, cap |-> cap]
               /\ stdout' = r.out
               /\ pos' = pos
    /\ hist' = [hist EXCEPT !.reads = @ + 1, !.spare = SpareCapacity(inner)]
    /\ UNCHANGED << pc, cmd, cargo_output, checked_dbg_var, child, stream, ret,
                    result, spawnRet, waitRes >>
    /\ UNCHANGED threadVars

\* one iteration of the loop whose read returns Ok(n), n # 0
ReadData ==
    /\ pc = "fa_loop"
    /\ inner.some
    /\ LET old_data_end == Len(inner.buffer)
           cap == Reserve(inner.cap, old_data_end, MIN_BUFFER_CAPACITY)
       IN \E n \in 1..Min(Len(stream) - pos, cap - old_data_end) :
            LET r == OnBytesRead(inner.buffer, SubSeq(stream, pos + 1, pos + n), stdout)
            IN /\ inner' = [some |-> TRUE, buffer |-> r.buffer, cap |-> cap]
               /\ stdout' = r.out
               /\ pos' = pos + n
    /\ hist' = [hist EXCEPT !.reads = @ + 1, !.spare = SpareCapacity(inner)]
    /\ UNCHANGED << pc, cmd, cargo_output, checked_dbg_var, child, stream, ret,
                    result, spawnRet, waitRes >>
    /\ UNCHANGED threadVars

ReadWouldBlockDropsBuffer ==
    /\ pc = "fa_loop"
    /\ inner.some
    /\ hist.wouldBlocks < MaxWouldBlock
    /\ inner' = [inner EXCEPT !.buffer = <<>>,
                              !.cap = Reserve(inner.cap, Len(inner.buffer), MIN_BUFFER_CAPACITY)]
    /\ ret' = FALSE
    /\ pc' = "fa_ret"
    /\ hist' = [hist EXCEPT !.reads = @ + 1, !.wouldBlocks = @ + 1,
                            !.spare = SpareCapacity(inner)]
    /\ UNCHANGED << cmd, cargo_output, checked_dbg_var, child, stream, pos, stdout,
                    result, spawnRet, waitRes >>
    /\ UNCHANGED threadVars

\* one iteration whose read returns Err(WouldBlock)
ReadWouldBlock ==
    /\ pc = "fa_loop"
    /\ inner.some
    /\ hist.wouldBlocks < MaxWouldBlock
    /\ inner' = [inner EXCEPT !.cap = Reserve(inner.cap, Len(inner.buffer), MIN_BUFFER_CAPACITY)]
    /\ ret' = FALSE
    /\ pc' = "fa_ret"
    /\ hist' = [hist EXCEPT !.reads = @ + 1, !.wouldBlocks = @ + 1,
                            !.spare = SpareCapacity(inner)]
    /\ UNCHANGED << cmd, cargo_output, checked_dbg_var, child, stream, pos, stdout,
                    result, spawnRet, waitRes >>
    /\ UNCHANGED threadVars

\* one iteration whose read returns Err(Interrupted)
ReadInterrupted ==
    /\ pc = "fa_loop"
    /\ inner.some
    /\ hist.interrupts < MaxInterrupted
    /\ inner' = [inner EXCEPT !.cap = Reserve(inner.cap, Len(inner.buffer), MIN_BUFFER_CAPACITY)]
    /\ hist' = [hist EXCEPT !.reads = @ + 1, !.interrupts = @ + 1,
                            !.spare = SpareCapacity(inner)]
    /\ UNCHANGED << pc, cmd, cargo_output, checked_dbg_var, child, stream, pos, stdout,
                    ret, result, spawnRet, waitRes >>
    /\ UNCHANGED threadVars

EndOfStreamKeepsHandle(err) ==
    /\ stdout' = FlushAtEnd(inner.buffer, stdout, err)
    /\ inner' = inner
    /\ ret' = TRUE
    /\ pc' = "fa_ret"
    /\ hist' = [hist EXCEPT !.reads = @ + 1, !.doneReported = TRUE,
                            !.readErr = (err # "none"),
                            !.spare = SpareCapacity(inner)]
    /\ UNCHANGED << cmd, cargo_output, checked_dbg_var, child, stream, pos,
                    result, spawnRet, waitRes >>
    /\ UNCHANGED threadVars

\* the arm res => ... of the match, for the read result res
EndOfStream(err) ==
    /\ stdout' = FlushAtEnd(inner.buffer, stdout, err)
    /\ inner' = NoInner
    /\ ret' = TRUE
    /\ pc' = "fa_ret"
    /\ hist' = [hist EXCEPT !.reads = @ + 1, !.doneReported = TRUE,
                            !.readErr = (err # "none"),
                            !.spare = SpareCapacity(inner)]
    /\ UNCHANGED << cmd, cargo_output, checked_dbg_var, child, stream, pos,
                    result, spawnRet, waitRes >>
    /\ UNCHANGED threadVars

\* one iteration whose read returns Ok(0): every byte was read and the pipe
\* is closed, or the read was given no room
ReadEof ==
    /\ pc = "fa_loop"
    /\ inner.some
    /\ pos = Len(stream) \/ SpareCapacity(inner) = 0
    /\ EndOfStream("none")

\* one iteration whose read returns any other Err
ReadError ==
    /\ pc = "fa_loop"
    /\ inner.some
    /\ \E e \in ReadErrors : EndOfStream(e)

ForwardAllRetry ==
    /\ pc = "fa_ret"
    /\ pc' = IF ret THEN "drained" ELSE "fa_enter"
    /\ UNCHANGED << cmd, cargo_output, checked_dbg_var, child, stream, pos, inner,
                    stdout, ret, result, spawnRet, waitRes, hist >>
    /\ UNCHANGED threadVars

ForwardAllUnchecked ==
    /\ pc = "fa_ret"
    /\ pc' = "drained"
    /\ UNCHANGED << cmd, cargo_output, checked_dbg_var, child, stream, pos, inner,
                    stdout, ret, result, spawnRet, waitRes, hist >>
    /\ UNCHANGED threadVars

\* forward_all, line 185: assert!(forward_result, ...)
ForwardAllAssert ==
    /\ pc = "fa_ret"
    /\ pc' = IF ret THEN "drained" ELSE "panicked"
    /\ UNCHANGED << cmd, cargo_output, checked_dbg_var, child, stream, pos, inner,
                    stdout, ret, result, spawnRet, waitRes, hist >>
    /\ UNCHANGED threadVars

\* wait_on_child, line 205: child.wait() blocks until the child has exited
ChildWait ==
    /\ pc = "drained"
    /\ \E w \in WaitOutcomes : waitRes' = w
    /\ pc' = "waited"
    /\ hist' = [hist EXCEPT !.waits = @ + 1]
    /\ UNCHANGED << cmd, cargo_output, checked_dbg_var, child, stream, pos, inner,
                    stdout, ret, result, spawnRet >>
    /\ UNCHANGED threadVars

WaitOnChildReturnPrintsOnFailure ==
    /\ pc = "waited"
    /\ IF waitRes.tag = "Err"
       THEN /\ result' = WaitFailed(cmd, Program, waitRes.err)
            /\ UNCHANGED << checked_dbg_var, stdout >>
       ELSE LET dbg == IF StatusSuccess(waitRes.status)
                       THEN [checked |-> checked_dbg_var, out |-> stdout]
                       ELSE PrintDebug(cargo_output, checked_dbg_var, stdout,
                                       DisplayStatus(waitRes.status))
            IN /\ checked_dbg_var' = dbg.checked
               /\ stdout' = dbg.out
               /\ result' = Classify(cmd, Program, waitRes.status)
    /\ pc' = "returned"
    /\ UNCHANGED << cmd, cargo_output, child, stream, pos, inner, ret, spawnRet,
                    waitRes, hist >>
    /\ UNCHANGED threadVars

\* wait_on_child, lines 205-234: the match on the wait result, then
\* print_debug(&status) and the classification of the status
WaitOnChildReturn ==
    /\ pc = "waited"
    /\ IF waitRes.tag = "Err"
       THEN /\ result' = WaitFailed(cmd, Program, waitRes.err)
            /\ UNCHANGED << checked_dbg_var, stdout >>
       ELSE LET dbg == PrintDebug(cargo_output, checked_dbg_var, stdout,
                                  DisplayStatus(waitRes.status))
            IN /\ checked_dbg_var' = dbg.checked
               /\ stdout' = dbg.out
               /\ result' = Classify(cmd, Program, waitRes.status)
    /\ pc' = "returned"
    /\ UNCHANGED << cmd, cargo_output, child, stream, pos, inner, ret, spawnRet,
                    waitRes, hist >>
    /\ UNCHANGED threadVars

Next ==
    \/ RunSpawn
    \/ StderrForwarderNew
    \/ ForwardAvailableEnter
    \/ ReadData
    \/ ReadWouldBlock
    \/ ReadInterrupted
    \/ ReadEof
    \/ ReadError
    \/ ForwardAllAssert
    \/ ChildWait
    \/ WaitOnChildReturn

Spec == Init /\ [][Next]_vars

\* run under the scheduling the code has: one thread that keeps executing,
\* reads and a wait that return (the child exits and the pipe closes), and
\* interrupted reads that do not recur for ever (MaxInterrupted)
SpecLive == Init /\ [][Next]_vars /\ WF_vars(Next)

\* ------------------------------------------- a forwarder polled by its owner
\* A caller that owns a StderrForwarder and calls forward_available again and
\* again, whatever it returned (the stream may be non-blocking).
InitFwd ==
    /\ pc = "spawned"
    /\ cargo_output = [metadata |-> TRUE, warnings |-> TRUE, debug |-> FALSE]
    /\ cmd = [program |-> Program, args |-> <<"-d", "out">>, stderr |-> "inherit",
              stdout |-> "inherit"]
    /\ checked_dbg_var = FALSE
    /\ child \in { [spawned |-> TRUE, stderr |-> s] : s \in {"pipe", "none"} }
    /\ stream \in IF child.stderr = "pipe" THEN SeqsUpTo(MaxStream) ELSE { <<>> }
    /\ pos = 0
    /\ inner = NoInner
    /\ stdout = <<>>
    /\ ret = FALSE
    /\ result = NoError
    /\ spawnRet = OkResult
    /\ waitRes = NoWait
    /\ hist = NoHist
    /\ ThreadsIdle

PollAgain ==
    /\ pc = "fa_ret"
    /\ hist.calls < MaxCalls
    /\ pc' = "fa_enter"
    /\ UNCHANGED << cmd, cargo_output, checked_dbg_var, child, stream, pos, inner,
                    stdout, ret, result, spawnRet, waitRes, hist >>
    /\ UNCHANGED threadVars

NextFwd ==
    \/ StderrForwarderNew
    \/ ForwardAvailableEnter
    \/ ReadData
    \/ ReadWouldBlock
    \/ ReadInterrupted
    \/ ReadEof
    \/ ReadError
    \/ PollAgain

SpecFwd == InitFwd /\ [][NextFwd]_vars

\* ------------------------------------------- threads printing to stdout
\* Several threads, each holding a clone of one of the CargoOutput instances
\* built by CargoOutput::new(), call print_debug and write_warning. Every
\* write_all and every piece of a println! is a step of its own; io::stdout()
\* has one lock for the whole process.
WarningPrefix == "cargo:warning="
AnnounceText == "cargo:rerun-if-env-changed=CC_ENABLE_DEBUG_OUTPUT"
DebugText == "running"
LineText == "a"

InitThreads ==
    /\ pc = "unspawned"
    /\ cargo_output \in [metadata : {TRUE}, warnings : {TRUE}, debug : BOOLEAN]
    /\ cmd = [program |-> Program, args |-> <<"-d", "out">>, stderr |-> "inherit",
              stdout |-> "inherit"]
    /\ checked_dbg_var = FALSE
    /\ child = NoChild
    /\ stream = <<>>
    /\ pos = 0
    /\ inner = NoInner
    /\ stdout = <<>>
    /\ ret = FALSE
    /\ result = NoError
    /\ spawnRet = NoError
    /\ waitRes = NoWait
    /\ hist = NoHist
    /\ thr \in [Threads -> { IdleThread(i) : i \in Instances }]
    /\ stdout_lock = 0
    /\ sink = <<>>
    /\ dbg_flags = [i \in Instances |-> FALSE]

\* println!: the call that follows, with its text and the place to go on at
Println(t, text, after) ==
    [thr EXCEPT ![t].pc = "pl_lock", ![t].text = text, ![t].after = after]

\* print_debug, line 88: self.metadata && !self.checked_dbg_var.load(Relaxed)
PrintDebugLoad(t) ==
    /\ thr[t].pc = "idle"
    /\ thr[t].ops < MaxOps
    /\ thr' = [thr EXCEPT ![t].pc = "pd_store", ![t].ops = @ + 1,
                          ![t].loaded = (cargo_output.metadata /\ ~dbg_flags[thr[t].inst])]
    /\ UNCHANGED << stdout_lock, sink, dbg_flags >>
    /\ UNCHANGED runVars

\* print_debug, lines 89-90: self.checked_dbg_var.store(true, Relaxed), then
\* the println! of the announcement
PrintDebugStore(t) ==
    /\ thr[t].pc = "pd_store"
    /\ IF thr[t].loaded
       THEN /\ dbg_flags' = [dbg_flags EXCEPT ![thr[t].inst] = TRUE]
            /\ thr' = Println(t, AnnounceText, "pd_debug")
       ELSE /\ dbg_flags' = dbg_flags
            /\ thr' = [thr EXCEPT ![t].pc = "pd_debug"]
    /\ UNCHANGED << stdout_lock, sink >>
    /\ UNCHANGED runVars

\* print_debug, lines 92-94: if self.debug { println!("{}", arg) }
PrintDebugArg(t) ==
    /\ thr[t].pc = "pd_debug"
    /\ thr' = IF cargo_output.debug THEN Println(t, DebugText, "idle")
              ELSE [thr EXCEPT ![t].pc = "idle"]
    /\ UNCHANGED << stdout_lock, sink, dbg_flags >>
    /\ UNCHANGED runVars

\* println!: Stdout::write_fmt takes the lock
PrintlnLock(t) ==
    /\ thr[t].pc = "pl_lock"
    /\ stdout_lock = 0
    /\ stdout_lock' = t
    /\ thr' = [thr EXCEPT ![t].pc = "pl_text"]
    /\ UNCHANGED << sink, dbg_flags >>
    /\ UNCHANGED runVars

\* println!: the formatted text is written
PrintlnText(t) ==
    /\ thr[t].pc = "pl_text"
    /\ sink' = Append(sink, [t |-> t, text |-> thr[t].text])
    /\ thr' = [thr EXCEPT ![t].pc = "pl_nl"]
    /\ UNCHANGED << stdout_lock, dbg_flags >>
    /\ UNCHANGED runVars

\* println!: the newline is written and the lock released
PrintlnNewline(t) ==
    /\ thr[t].pc = "pl_nl"
    /\ sink' = Append(sink, [t |-> t, text |-> NL])
    /\ stdout_lock' = IF stdout_lock = t THEN 0 ELSE stdout_lock
    /\ thr' = [thr EXCEPT ![t].pc = thr[t].after]
    /\ UNCHANGED dbg_flags
    /\ UNCHANGED runVars

WriteWarningUnlocked(t) ==
    /\ thr[t].pc = "idle"
    /\ thr[t].ops < MaxOps
    /\ thr' = [thr EXCEPT ![t].pc = "ww_prefix", ![t].ops = @ + 1]
    /\ UNCHANGED << stdout_lock, sink, dbg_flags >>
    /\ UNCHANGED runVars

\* write_warning, lines 190-191: stdout.lock()
WriteWarningLock(t) ==
    /\ thr[t].pc = "idle"
    /\ thr[t].ops < MaxOps
    /\ stdout_lock = 0
    /\ stdout_lock' = t
    /\ thr' = [thr EXCEPT ![t].pc = "ww_prefix", ![t].ops = @ + 1]
    /\ UNCHANGED << sink, dbg_flags >>
    /\ UNCHANGED runVars

\* write_warning, line 192: write_all(b"cargo:warning=")
WriteWarningPrefix(t) ==
    /\ thr[t].pc = "ww_prefix"
    /\ sink' = Append(sink, [t |-> t, text |-> WarningPrefix])
    /\ thr' = [thr EXCEPT ![t].pc = "ww_line"]
    /\ UNCHANGED << stdout_lock, dbg_flags >>
    /\ UNCHANGED runVars

\* write_warning, line 193: write_all(line)
WriteWarningLine(t) ==
    /\ thr[t].pc = "ww_line"
    /\ sink' = Append(sink, [t |-> t, text |-> LineText])
    /\ thr' = [thr EXCEPT ![t].pc = "ww_nl"]
    /\ UNCHANGED << stdout_lock, dbg_flags >>
    /\ UNCHANGED runVars

\* write_warning, lines 194-195: write_all(b"\n"), then the guard is dropped
WriteWarningNewline(t) ==
    /\ thr[t].pc = "ww_nl"
    /\ sink' = Append(sink, [t |-> t, text |-> NL])
    /\ stdout_lock' = IF stdout_lock = t THEN 0 ELSE stdout_lock
    /\ thr' = [thr EXCEPT ![t].pc = "idle"]
    /\ UNCHANGED dbg_flags
    /\ UNCHANGED runVars

NextThreads ==
    \E t \in Threads :
        \/ PrintDebugLoad(t)
        \/ PrintDebugStore(t)
        \/ PrintDebugArg(t)
        \/ PrintlnLock(t)
        \/ PrintlnText(t)
        \/ PrintlnNewline(t)
        \/ WriteWarningLock(t)
        \/ WriteWarningPrefix(t)
        \/ WriteWarningLine(t)
        \/ WriteWarningNewline(t)

SpecThreads == InitThreads /\ [][NextThreads]_vars

\* ------------------------------------------------------------ properties
\* the lines written by write_warning, in the order written
WarningLines(out) ==
    LET w == SelectSeq(out, LAMBDA e : e.kind = "warning")
    IN [i \in 1..Len(w) |-> w[i].text]

\* the lines with their newlines reinserted
RECURSIVE Join(_)
Join(lines) ==
    IF lines = <<>> THEN <<>>
    ELSE Head(lines) \o <<NL>> \o Join(Tail(lines))

EndsWithNewline(s) == s # <<>> /\ s[Len(s)] = NL

SpawnSucceeded == spawnRet.tag = "Ok"

\* C1: once a forwarder has read its stream to the end, whatever the chunks
\* the reads delivered, the forwarded lines with their newlines reinserted
\* are the stream itself, plus one newline when the stream ended without
\* one; "a\nb\n" forwards exactly "a" then "b".
C1_ChunkingInvariance ==
    (hist.doneReported /\ ~hist.readErr) =>
        /\ Join(WarningLines(stdout)) =
              IF stream = <<>> \/ EndsWithNewline(stream) THEN stream
              ELSE stream \o <<NL>>
        /\ stream = <<"a", NL, "b", NL>> =>
              WarningLines(stdout) = << <<"a">>, <<"b">> >>

C1_Witness ==
    /\ hist.doneReported /\ ~hist.readErr
    /\ stream = <<"a", NL, "b", NL>>
    /\ hist.reads = 3 /\ hist.wouldBlocks = 0 /\ hist.interrupts = 0
    /\ WarningLines(stdout) = << <<"a">>, <<"b">> >>

Phase(p) ==
    CASE p = "unspawned" -> "Unspawned"
      [] p = "spawned" -> "Spawned"
      [] p \in {"fa_enter", "fa_loop", "fa_ret", "drained"} -> "Draining"
      [] p = "waited" -> "Waited"
      [] p = "returned" -> "Finished"
      [] p = "panicked" -> "Aborted"

\* C3: run moves Unspawned -> Spawned -> Draining -> Waited -> finished one
\* step at a time (a failed spawn finishes at once, a failed assertion
\* aborts), and child.wait() is only called once the forwarder has reported
\* done and released the stream handle.
C3_StepOrder ==
    /\ Phase(pc') # Phase(pc) =>
          << Phase(pc), Phase(pc') >> \in
              { << "Unspawned", "Spawned" >>, << "Spawned", "Draining" >>,
                << "Draining", "Waited" >>, << "Waited", "Finished" >>,
                << "Unspawned", "Finished" >>, << "Draining", "Aborted" >> }
    /\ (Phase(pc) = "Unspawned" /\ Phase(pc') = "Finished") => result'.tag = "Err"
    /\ hist'.waits # hist.waits =>
          /\ Phase(pc) = "Draining"
          /\ hist.calls >= 1 /\ hist.doneReported /\ ret
          /\ ~inner.some

C3_DrainBeforeWait == [][C3_StepOrder]_vars

C3_Witness ==
    /\ pc = "waited" /\ hist.waits = 1
    /\ hist.hadStream /\ hist.reads >= 2
    /\ ~inner.some

\* C4: when the captured stream is a sequence of newline-terminated lines,
\* no read failed and the child exited with status 0, every line is on
\* stdout exactly once and in order by the time draining is over, and run
\* returns Ok.
C4_EveryLineOnce ==
    ( /\ pc \in {"drained", "waited", "returned"}
      /\ SpawnSucceeded /\ cargo_output.warnings /\ ~hist.readErr
      /\ (stream = <<>> \/ EndsWithNewline(stream)) ) =>
        /\ Join(WarningLines(stdout)) = stream
        /\ \A i \in 1..Len(WarningLines(stdout)) : NL \notin Range(WarningLines(stdout)[i])
        /\ Len(WarningLines(stdout)) = Cardinality({ i \in 1..Len(stream) : stream[i] = NL })
        /\ ( pc = "returned" /\ waitRes.tag = "Ok"
             /\ waitRes.status = [kind |-> "exited", n |-> 0] ) => result = OkResult

C4_Witness ==
    /\ pc = "returned" /\ result = OkResult
    /\ stream = <<"a", NL, "b", NL>>
    /\ hist.reads >= 3
    /\ WarningLines(stdout) = << <<"a">>, <<"b">> >>

NoticePrefix == "Failed to read from child stderr: "

\* C5 as stated: a failed read while draining, or a failed wait, makes run
\* return an error.
C5_DrainOrWaitFailureFails ==
    (pc = "returned" /\ SpawnSucceeded /\ (hist.readErr \/ waitRes.tag = "Err")) =>
        result.tag = "Err"

\* C5 amended: a failed wait makes run return ToolExecError; a failed read
\* while draining is forwarded as a notice line, and the result of run then
\* follows the wait outcome alone (Ok when the status is zero).
C5_WaitFailureFails ==
    (pc = "returned" /\ SpawnSucceeded) =>
        /\ waitRes.tag = "Err" => (result.tag = "Err" /\ result.kind = "ToolExecError")
        /\ hist.readErr =>
              /\ \E i \in 1..Len(stdout) :
                    /\ stdout[i].kind = "warning" /\ stdout[i].text # <<>>
                    /\ Head(stdout[i].text) = NoticePrefix
              /\ result = OkResult <=>
                    (waitRes.tag = "Ok" /\ waitRes.status = [kind |-> "exited", n |-> 0])

C5_Witness ==
    /\ pc = "returned" /\ hist.readErr
    /\ waitRes.tag = "Ok" /\ result = OkResult

\* C6: spawn returns ToolNotFound exactly when Command::spawn failed with
\* NotFound, ToolExecError for every other failure, and the child with no
\* error when it succeeded; run returns the error of spawn unchanged.
C6_SpawnClassification ==
    pc # "unspawned" =>
        /\ hist.spawnOutcome = "ok" <=> spawnRet.tag = "Ok"
        /\ spawnRet.tag = "Ok" <=> child.spawned
        /\ spawnRet.tag \in {"Ok", "Err"}
        /\ spawnRet.tag = "Err" =>
              /\ spawnRet.kind \in {"ToolNotFound", "ToolExecError"}
              /\ spawnRet.kind = "ToolNotFound" <=> hist.spawnOutcome = "NotFound"
              /\ pc = "returned" /\ result = spawnRet

C6_Witness ==
    /\ pc = "returned"
    /\ hist.spawnOutcome = "NotFound"
    /\ result.tag = "Err" /\ result.kind = "ToolNotFound"

\* C7: after a successful spawn run returns Ok exactly when the wait
\* succeeded with status code zero, ToolExecError when the wait failed,
\* ToolExecError with the status code in its message when the status is
\* not zero, and never IOError or ToolNotFound.
C7_ResultFollowsWait ==
    (pc = "returned" /\ SpawnSucceeded) =>
        /\ result.tag \in {"Ok", "Err"}
        /\ result.tag = "Ok" <=>
              (waitRes.tag = "Ok" /\ waitRes.status.kind = "exited" /\ waitRes.status.n = 0)
        /\ result.tag = "Err" => result.kind = "ToolExecError"
        /\ (waitRes.tag = "Ok" /\ waitRes.status.kind = "exited" /\ waitRes.status.n # 0) =>
              ToString(waitRes.status.n) \in Range(result.message)

C7_Witness ==
    /\ pc = "returned" /\ SpawnSucceeded
    /\ waitRes.tag = "Ok" /\ waitRes.status = [kind |-> "exited", n |-> 1]
    /\ result.kind = "ToolExecError" /\ "1" \in Range(result.message)

\* the message shows the command with the arguments attempted
IncludesCommand(message, c) ==
    /\ c.program \in Range(message)
    /\ \A i \in 1..Len(c.args) : c.args[i] \in Range(message)

\* the message shows what distinguishes the failure
IncludesCause(message) ==
    CASE ~SpawnSucceeded /\ hist.spawnOutcome = "NotFound" ->
            "Failed to find tool. Is " \in Range(message)
      [] ~SpawnSucceeded /\ hist.spawnOutcome # "NotFound" ->
            hist.spawnOutcome \in Range(message)
      [] SpawnSucceeded /\ waitRes.tag = "Err" -> waitRes.err \in Range(message)
      [] OTHER -> ToString(waitRes.status.n) \in Range(message)

\* C8 as stated: every error message includes the command with its
\* arguments and the cause.
C8_EveryMessageNamesCommand ==
    (pc = "returned" /\ result.tag = "Err") =>
        (IncludesCommand(result.message, cmd) /\ IncludesCause(result.message))

\* C8 amended: every ToolExecError message includes the command with its
\* arguments and the cause; a ToolNotFound message names the missing
\* program and the cause, and none of the arguments.
C8_ExecErrorNamesCommand ==
    (pc = "returned" /\ result.tag = "Err") =>
        /\ IncludesCause(result.message)
        /\ result.kind = "ToolExecError" => IncludesCommand(result.message, cmd)
        /\ result.kind = "ToolNotFound" =>
              /\ Program \in Range(result.message)
              /\ \A i \in 1..Len(cmd.args) : cmd.args[i] \notin Range(result.message)

C8_Witness ==
    /\ pc = "returned" /\ SpawnSucceeded /\ waitRes.tag = "Err"
    /\ result.kind = "ToolExecError"
    /\ cmd.args = <<"-Werror", "-d", "out">>
    /\ "-Werror" \in Range(result.message)

\* C9: once spawn has returned, by any exit path, the command's stderr is
\* "inherit" again, whatever spawn configured from the warnings setting.
C9_StderrReset ==
    pc # "unspawned" =>
        /\ hist.spawnStderr = (IF cargo_output.warnings THEN "piped" ELSE "null")
        /\ cmd.stderr = "inherit"

C9_Witness ==
    /\ pc = "returned" /\ hist.spawnOutcome = "PermissionDenied"
    /\ hist.spawnStderr = "piped"
    /\ cmd.stderr = "inherit"

\* C10: a forwarder built without a stream is finished from the start; one
\* whose stream is empty forwards nothing and reports done; and once done
\* has been reported every further call reports done again, without a
\* read, a forwarded line or a change of the forwarder.
C10_DoneState ==
    /\ (pc \notin {"unspawned", "spawned"} /\ ~hist.hadStream) =>
          (~inner.some /\ hist.reads = 0 /\ stdout = <<>>)
    /\ hist.doneReported => ~inner.some
    /\ (hist.doneReported /\ stream = <<>> /\ ~hist.readErr) => stdout = <<>>
    /\ (pc = "fa_ret" /\ ~hist.hadStream) => ret

C10_DoneStep ==
    hist.doneReported =>
        /\ hist'.doneReported
        /\ hist'.reads = hist.reads
        /\ stdout' = stdout
        /\ inner' = inner
        /\ pc' = "fa_ret" => ret'

C10_DoneIsAbsorbing == []C10_DoneState /\ [][C10_DoneStep]_vars

C10_Witness ==
    /\ pc = "fa_ret" /\ ret
    /\ hist.hadStream /\ hist.reads >= 2 /\ hist.wouldBlocks = 0
    /\ hist.calls = 3

\* the part of the stream that the reads have delivered so far
Delivered == SubSeq(stream, 1, pos)

\* the bytes of s after its last newline
RECURSIVE AfterLastNewline(_)
AfterLastNewline(s) ==
    IF s = <<>> \/ s[Len(s)] = NL THEN <<>>
    ELSE Append(AfterLastNewline(SubSeq(s, 1, Len(s) - 1)), s[Len(s)])

NewlineCount(s) == Cardinality({ i \in 1..Len(s) : s[i] = NL })

\* C11: while the stream is open only newline-terminated lines have been
\* forwarded and the undelimited bytes are kept in the buffer; they are
\* forwarded once, as the last line, by the step that sees end-of-stream;
\* "ab" forwards nothing on the reads that deliver it and "ab" at the end.
C11_PartialOnlyAtEnd ==
    /\ inner.some =>
          /\ Join(WarningLines(stdout)) \o inner.buffer = Delivered
          /\ Len(WarningLines(stdout)) = NewlineCount(Delivered)
    /\ (hist.doneReported /\ ~hist.readErr /\ AfterLastNewline(stream) # <<>>) =>
          /\ Len(WarningLines(stdout)) = NewlineCount(stream) + 1
          /\ WarningLines(stdout)[Len(WarningLines(stdout))] = AfterLastNewline(stream)
    /\ stream = <<"a", "b">> =>
          /\ inner.some => stdout = <<>>
          /\ (hist.doneReported /\ ~hist.readErr) =>
                WarningLines(stdout) = << <<"a", "b">> >>

C11_Witness ==
    /\ stream = <<"a", "b">>
    /\ hist.doneReported /\ ~hist.readErr /\ hist.reads = 3
    /\ WarningLines(stdout) = << <<"a", "b">> >>

\* the position of the k-th newline of s
NewlineAt(s, k) ==
    CHOOSE p \in 1..Len(s) :
        s[p] = NL /\ Cardinality({ q \in 1..(p - 1) : s[q] = NL }) = k - 1

\* the lines of s: what stands between its newlines, and what follows the
\* last one when that is not empty
LinesOf(s) ==
    LET n == NewlineCount(s)
        from(k) == IF k = 1 THEN 1 ELSE NewlineAt(s, k - 1) + 1
        full == [k \in 1..n |-> SubSeq(s, from(k), NewlineAt(s, k) - 1)]
    IN IF AfterLastNewline(s) = <<>> THEN full
       ELSE Append(full, AfterLastNewline(s))

\* C12: the forwarded lines are those of the delivered bytes, however many
\* would-block and interrupted reads came in between.
C12_LinesOfDelivered ==
    /\ inner.some => WarningLines(stdout) = LinesOf(SubSeq(Delivered, 1, pos - Len(inner.buffer)))
    /\ (hist.doneReported /\ ~hist.readErr) => WarningLines(stdout) = LinesOf(stream)

\* C12: a would-block read ends the call with "not done" and an interrupted
\* read is retried inside the same call; both leave the buffered bytes, the
\* stream handle and stdout as they were.
C12_TransparentStep ==
    /\ hist'.wouldBlocks # hist.wouldBlocks =>
          /\ pc' = "fa_ret" /\ ~ret'
          /\ inner'.some /\ inner'.buffer = inner.buffer
          /\ stdout' = stdout /\ pos' = pos
    /\ hist'.interrupts # hist.interrupts =>
          /\ pc' = "fa_loop" /\ hist'.calls = hist.calls
          /\ inner'.some /\ inner'.buffer = inner.buffer
          /\ stdout' = stdout /\ pos' = pos

C12_WouldBlockTransparent == []C12_LinesOfDelivered /\ [][C12_TransparentStep]_vars

C12_Witness ==
    /\ pc = "fa_ret" /\ ~ret
    /\ hist.wouldBlocks = 2 /\ hist.interrupts = 1
    /\ inner.some /\ inner.buffer = <<"b">>
    /\ WarningLines(stdout) = << <<"a">> >>

\* C15: run spawns at most once and waits at most once; after a failed
\* spawn no forwarder was driven, no wait was made and no line forwarded;
\* after a successful spawn a run that returned has waited exactly once,
\* also when the wait failed or the status was not zero.
C15_NoRetry ==
    /\ hist.spawns <= 1 /\ hist.waits <= 1
    /\ pc # "unspawned" => hist.spawns = 1
    /\ (pc # "unspawned" /\ ~SpawnSucceeded) =>
          /\ pc = "returned"
          /\ hist.calls = 0 /\ hist.reads = 0 /\ hist.waits = 0
          /\ WarningLines(stdout) = <<>>
          /\ ~inner.some
    /\ (SpawnSucceeded /\ pc \in {"waited", "returned"}) => hist.waits = 1
    /\ (SpawnSucceeded /\ pc \notin {"waited", "returned"}) => hist.waits = 0

C15_Witness ==
    /\ pc = "returned" /\ SpawnSucceeded
    /\ waitRes.tag = "Ok" /\ waitRes.status = [kind |-> "exited", n |-> 1]
    /\ result.tag = "Err"
    /\ hist.spawns = 1 /\ hist.waits = 1

\* C16: whenever forward_available is about to read or has returned, the
\* buffer holds no newline: it is what was delivered after the last
\* newline, and every complete line delivered has been forwarded.
C16_BufferHasNoNewline ==
    inner.some =>
        /\ NL \notin Range(inner.buffer)
        /\ inner.buffer = AfterLastNewline(Delivered)
        /\ WarningLines(stdout) =
              [k \in 1..NewlineCount(Delivered) |->
                  SubSeq(Delivered,
                         IF k = 1 THEN 1 ELSE NewlineAt(Delivered, k - 1) + 1,
                         NewlineAt(Delivered, k) - 1)]

C16_Witness ==
    /\ inner.some /\ pc = "fa_loop"
    /\ Delivered = <<"a", NL, NL, "b">>
    /\ inner.buffer = <<"b">>
    /\ hist.reads = 1

\* the lines a step appended to stdout
Appended(old, new, k) ==
    /\ Len(new) = Len(old) + k
    /\ SubSeq(new, 1, Len(old)) = old

\* C17: the step that sees a failed read forwards the buffered bytes if
\* there are any, then one notice line, releases the handle and returns
\* done; the step that sees a zero-byte read does the same without the
\* notice; afterwards nothing is read or forwarded.
C17_EndStep ==
    /\ (inner.some /\ ~inner'.some) =>
          LET flushed == IF inner.buffer = <<>> THEN 0 ELSE 1
              noticed == IF hist'.readErr THEN 1 ELSE 0
          IN /\ pc' = "fa_ret" /\ ret' /\ hist'.doneReported
             /\ hist'.reads = hist.reads + 1
             /\ hist'.readErr \/ pos = Len(stream)
             /\ Appended(stdout, stdout', flushed + noticed)
             /\ flushed = 1 =>
                   stdout'[Len(stdout) + 1] = [kind |-> "warning", text |-> inner.buffer]
             /\ noticed = 1 =>
                   \E e \in ReadErrors :
                       stdout'[Len(stdout')] = [kind |-> "warning", text |-> <<NoticePrefix, e>>]
    /\ (hist.doneReported /\ hist.hadStream) =>
          /\ hist'.reads = hist.reads
          /\ WarningLines(stdout') = WarningLines(stdout)
          /\ ~inner'.some

C17_FlushThenNotice == [][C17_EndStep]_vars

C17_Witness ==
    /\ hist.readErr /\ pc = "fa_ret" /\ ret
    /\ Len(stdout) = 3
    /\ stdout[1].text = <<"a">>
    /\ stdout[2].text = <<"b">>
    /\ stdout[3].text = <<NoticePrefix, "BrokenPipe">>
    /\ stream = <<"a", NL, "b", "a">>

\* the lines written by print_debug's println!, in the order written
DebugLines(out) == SelectSeq(out, LAMBDA e : e.kind = "println")

RunningLine == [kind |-> "println", text |-> <<"running: ">> \o DebugCommand(cmd)]
StatusLine(st) == [kind |-> "println", text |-> DisplayStatus(st)]
AnnounceLine ==
    [kind |-> "println", text |-> <<"cargo:rerun-if-env-changed=CC_ENABLE_DEBUG_OUTPUT">>]

\* C18: with debug on, "running: <command>" is printed by spawn whether or
\* not the spawn then succeeds and before any forwarded line, and the raw
\* status is printed once the wait has returned one, zero or not, as the
\* last line before run returns its classification; a failed wait prints no
\* status, and with debug off neither line is printed.
C18_DebugOrder ==
    /\ (pc # "unspawned" /\ cargo_output.debug) =>
          /\ Len(stdout) >= 2
          /\ stdout[1] = AnnounceLine /\ stdout[2] = RunningLine
          /\ \A i \in 3..Len(stdout) : stdout[i] # RunningLine
    /\ (pc = "returned" /\ SpawnSucceeded /\ cargo_output.debug) =>
          IF waitRes.tag = "Ok"
          THEN /\ stdout[Len(stdout)] = StatusLine(waitRes.status)
               /\ Len(DebugLines(stdout)) = 3
          ELSE Len(DebugLines(stdout)) = 2
    /\ (pc # "returned" /\ cargo_output.debug) => Len(DebugLines(stdout)) <= 2
    /\ ~cargo_output.debug => \A i \in 1..Len(DebugLines(stdout)) :
                                  DebugLines(stdout)[i] = AnnounceLine

C18_Witness ==
    /\ pc = "returned" /\ cargo_output.debug
    /\ waitRes.status = [kind |-> "exited", n |-> 0]
    /\ result = OkResult
    /\ WarningLines(stdout) # <<>>
    /\ stdout[Len(stdout)] = StatusLine(waitRes.status)

\* C20: every read is given at least MIN_BUFFER_CAPACITY bytes of room,
\* whatever is buffered; so the room is never empty, a zero-byte read
\* happens only at the end of the stream, and the length after a read
\* stays within the capacity.
C20_ReadStep ==
    hist'.reads # hist.reads =>
        /\ hist'.spare >= MIN_BUFFER_CAPACITY
        /\ hist'.spare > 0
        /\ pos' - pos <= hist'.spare
        /\ inner'.some =>
              /\ inner'.cap - Len(inner.buffer) = hist'.spare
              /\ Len(inner.buffer) + (pos' - pos) <= inner'.cap
              /\ Len(inner'.buffer) <= inner'.cap
        /\ (~inner'.some /\ ~hist'.readErr) => pos = Len(stream)

C20_SpareCapacity == [][C20_ReadStep]_vars

C20_Witness ==
    /\ inner.some /\ inner.cap = 2 * MIN_BUFFER_CAPACITY
    /\ Len(inner.buffer) = 3
    /\ hist.reads >= 3
    /\ hist.spare >= MIN_BUFFER_CAPACITY

C19_LoopStep ==
    /\ (pc = "fa_loop" /\ pc' # "fa_loop") =>
          /\ pc' = "fa_ret"
          /\ \/ hist'.wouldBlocks = hist.wouldBlocks + 1 /\ ~ret'
             \/ ~inner'.some /\ ret' /\ (hist'.readErr \/ pos = Len(stream))
    /\ (pc = "fa_loop" /\ pc' = "fa_loop" /\ hist'.reads # hist.reads) =>
          \/ hist'.interrupts = hist.interrupts + 1 /\ pos' = pos
          \/ pos' > pos /\ pos' <= Len(stream)

C13_NoInterleaving ==
    /\ \A k \in 2..Len(sink) : sink[k - 1].text # NL => sink[k].t = sink[k - 1].t
    /\ \A k \in 1..Len(sink) :
          sink[k].text = WarningPrefix =>
              /\ k + 1 <= Len(sink) => sink[k + 1] = [t |-> sink[k].t, text |-> LineText]
              /\ k + 2 <= Len(sink) => sink[k + 2] = [t |-> sink[k].t, text |-> NL]
    /\ \A t \in Threads :
          thr[t].pc \in {"ww_prefix", "ww_line", "ww_nl", "pl_text", "pl_nl"} =>
              stdout_lock = t

C13_Witness ==
    /\ thr[1].pc = "ww_line" /\ stdout_lock = 1
    /\ thr[2].pc = "pl_lock"
    /\ Len(sink) = 1 /\ sink[1] = [t |-> 1, text |-> WarningPrefix]

\* C14: the announcement line is written at most once, whatever the
\* threads, the clones and the instances that call print_debug.
C14_AnnouncedAtMostOnce ==
    Cardinality({ k \in 1..Len(sink) : sink[k].text = AnnounceText }) <= 1
====
